---- MODULE Spec2Model ----
(***************************************************************************)
(* Model of src/communication/RpcClient.cpp: RpcClient::invokeMethod, the  *)
(* per-invocation std::once_flag, the shared detail::ExpireWorker with its *)
(* ScrubablePendingQueue, RpcClient::ExpireService and the worker thread.  *)
(*                                                                         *)
(* Threads: one caller thread per invocation slot, one destroying thread   *)
(* per client instance, the worker thread, the thread that runs the static *)
(* destructor of the worker, and the transport delivering messages to the  *)
(* registered listeners.  A lock_guard scope of a client thread is one    *)
(* step (it touches only state guarded by pending_mtx_); the scopes of the *)
(* worker are two steps (acquire and body, then release); a wait on the    *)
(* condition variable releases the mutex atomically with blocking.         *)
(*                                                                         *)
(* LockSpec refines the lock scopes: every scope of every thread is an     *)
(* acquire step and a release step, a notification is a call step and a    *)
(* return step, and the callback may use the client in between.            *)
(*                                                                         *)
(* Not modelled: the capacity of the queue's vector (shrink_to_fit,        *)
(* lines 252-256, changes no element), message payloads and addressing.    *)
(***************************************************************************)
EXTENDS Integers, Sequences, FiniteSets, TLC

\* ------------------------------------------------------------------ bounds
MaxInv == 3    \* invocation slots (waiters the queue can hold)
MaxCalls == 2  \* calls of invokeMethod in a run with every delivery path
MaxTime == 3   \* steady_clock horizon, in ticks

Inv == 1..MaxInv
Instances == {0, 1}                 \* instance_id_ of the two ExpireService objects
ttl_ == [a \in Instances |-> a + 1] \* RpcClient::ttl_ of each client
NoInv == 0                          \* empty std::optional / empty handle

\* Status values a continuation or an expiry notification can be called with
OK == "OK"
RemoteErr == "UNAVAILABLE"           \* a commstatus other than OK
RegErr == "REGISTER_FAILED"          \* maybe_handle.error()
SendErr == "SEND_FAILED"             \* send_result with code != OK
DeadlineExceeded == "DEADLINE_EXCEEDED"
Discarded == "CANCELLED: RpcClient for this request was discarded"
ShuttingDown == "CANCELLED: ExpireWorker shutting down"
CommStatus == {OK, RemoteErr}
Messages == [reqid : Inv, commstatus : CommStatus]
NoMsg == [to |-> NoInv, reqid |-> NoInv, commstatus |-> OK]
\* no operation is being run from inside a notification
NoNest == [by |-> "none", of |-> 0, kind |-> "none", id |-> 0]

VARIABLES
    now,            \* std::chrono::steady_clock::now()
    ipc,            \* per invocation: position of the caller in invokeMethod
    instance_id,    \* per invocation: ExpireService::instance_id_ of its client
    when_expire,    \* per invocation: when_expire (line 112)
    snd,            \* per invocation: "none" / "ok" / "fail", result of send
    callback_once,  \* per invocation: the std::once_flag (TRUE = consumed)
    delivered,      \* per invocation: calls of the caller's callback, in order
    promise,        \* per invocation: the std::promise of the future-style call
    handle,         \* per invocation: who owns the ListenHandle
    notified,       \* per invocation: reasons its queued expire was called with
    pending,        \* ScrubablePendingQueue::c, the heap array (invocation ids)
    mtx,            \* pending_mtx_: "none" or the holder
    stop,           \* stop_
    woken,          \* a notify_one reached the worker blocked on wake_worker_
    wpc,            \* worker thread: position in doWork
    wnow,           \* doWork: now (line 306)
    maybe_expire,   \* doWork: maybe_expire (NoInv = nullopt)
    wake_when,      \* doWork: wake_when (line 341)
    spc,            \* per instance: position of ~ExpireService / scrub
    all_expired,    \* per instance: ExpireWorker::scrub's all_expired
    tpc,            \* position of ~ExpireWorker
    drained,        \* ~ScrubablePendingQueue: elements of c already notified
    lastRx,         \* last message handed to a listener (recorded by DeliverRec)
    nest            \* the operation a thread runs from inside a notification

vars == <<now, ipc, instance_id, when_expire, snd, callback_once, delivered,
          promise, handle, notified, pending, mtx, stop, woken, wpc, wnow,
          maybe_expire, wake_when, spc, all_expired, tpc, drained, lastRx,
          nest>>

invVars == <<ipc, instance_id, when_expire, snd>>
workerVars == <<wpc, wnow, maybe_expire, wake_when>>
scrubVars == <<spc, all_expired>>
tearVars == <<tpc, drained>>

Range(s) == {s[k] : k \in 1..Len(s)}

\* ------------------------------------------------------- the once-only gate
\* A call of the caller's callback with a message (callback(m))
MsgResult(m) == [kind |-> "message", reqid |-> m.reqid, status |-> m.commstatus]
\* A call of the caller's callback with utils::Unexpected<Status>(s)
ErrResult(s) == [kind |-> "status", reqid |-> NoInv, status |-> s]

\* (variant: the flag is not consulted)
CallOnceAlways(flag, calls, result) == Append(calls, result)

\* std::call_once(*callback_once, f): the calls of the callback after it
CallOnce(flag, calls, result) ==
    IF flag THEN calls ELSE Append(calls, result)

\* (variant: the commstatus is passed on as an error whatever it is)
WrapperResultAsError(i, m) == ErrResult(m.commstatus)

\* lines 123-131 of the wrapper lambda: what the listener of invocation i
\* hands to call_once for a matching message m
WrapperResult(i, m) ==
    IF m.commstatus = OK THEN MsgResult(m) ELSE ErrResult(m.commstatus)

\* (variant: no filter on the correlation id)
WrapperMatchesAny(i, m) == TRUE

\* line 122: MsgDiff::Equals(m.attributes().reqid(), reqid); the id of the
\* request of invocation i is i
WrapperMatches(i, m) == m.reqid = i

\* the std::promise<MessageOrStatus> of a future-style call before set_value
NoValue == [set |-> FALSE, thrown |-> FALSE, value |-> ErrResult(OK)]

\* (variant: the lambda forwards only messages to the promise)
SetValueMessageOnly(p, x) ==
    IF x.kind = "message" THEN [set |-> TRUE, thrown |-> FALSE, value |-> x]
    ELSE p

\* lines 183-185, 197-199: promise->set_value(maybe_message); a second
\* set_value throws std::future_error and leaves the stored value
SetValue(p, x) ==
    IF p.set THEN [p EXCEPT !.thrown = TRUE]
    ELSE [set |-> TRUE, thrown |-> FALSE, value |-> x]

\* lines 181-185, 195-199: the future-style overloads pass the lambda
\* [promise](maybe_message) { promise->set_value(maybe_message); } as the
\* callback of the callback-style invokeMethod: the promise after the calls
\* of the callback that extend before to after
Fulfil(p, before, after) ==
    IF Len(after) > Len(before) THEN SetValue(p, after[Len(after)]) ELSE p

\* the wrapper lambda (lines 119-133) applied to message m
Wrapper(i, m) ==
    IF WrapperMatches(i, m)
    THEN /\ delivered' = [delivered EXCEPT
                ![i] = CallOnce(callback_once[i], @, WrapperResult(i, m))]
         /\ promise' = [promise EXCEPT
                ![i] = Fulfil(@, delivered[i], delivered'[i])]
         /\ callback_once' = [callback_once EXCEPT ![i] = TRUE]
    ELSE UNCHANGED <<delivered, promise, callback_once>>

\* the expire lambda (lines 139-145) of invocation i called with reason
Expire(i, reason) ==
    /\ delivered' = [delivered EXCEPT
           ![i] = CallOnce(callback_once[i], @, ErrResult(reason))]
    /\ promise' = [promise EXCEPT
           ![i] = Fulfil(@, delivered[i], delivered'[i])]
    /\ callback_once' = [callback_once EXCEPT ![i] = TRUE]

\* ------------------------------------------------ the heap of pending_ (c)
\* (variant: the comparison reversed)
GreaterReversed(a, b) == when_expire[a] < when_expire[b]

\* PendingRequest::operator> on the waiters of invocations a and b
Greater(a, b) == when_expire[a] > when_expire[b]

\* std::__push_heap: c is the array, hole and top are 0-based indices
RECURSIVE PushHeap(_, _, _, _)
PushHeap(c, hole, top, v) ==
    LET parent == (hole - 1) \div 2 IN
    IF hole > top /\ Greater(c[parent + 1], v)
    THEN PushHeap([c EXCEPT ![hole + 1] = c[parent + 1]], parent, top, v)
    ELSE [c EXCEPT ![hole + 1] = v]

\* priority_queue::emplace: c.emplace_back, then std::push_heap
Emplace(c, v) == PushHeap(Append(c, v), Len(c), 0, v)

\* std::__adjust_heap, first loop: move the hole down to a leaf
RECURSIVE SiftHole(_, _, _)
SiftHole(c, hole, len) ==
    IF hole < (len - 1) \div 2
    THEN LET right == 2 * (hole + 1)
             child == IF Greater(c[right + 1], c[right]) THEN right - 1
                      ELSE right
         IN SiftHole([c EXCEPT ![hole + 1] = c[child + 1]], child, len)
    ELSE <<c, hole>>

\* std::__adjust_heap(first, 0, len, v)
AdjustHeap(c, len, v) ==
    LET s == SiftHole(c, 0, len)
        c1 == s[1]
        h1 == s[2]
        only == 2 * (h1 + 1) - 1
        c2 == IF len % 2 = 0 /\ len >= 2 /\ h1 = (len - 2) \div 2
              THEN [c1 EXCEPT ![h1 + 1] = c1[only + 1]] ELSE c1
        h2 == IF len % 2 = 0 /\ len >= 2 /\ h1 = (len - 2) \div 2
              THEN only ELSE h1
    IN PushHeap(c2, h2, 0, v)

\* priority_queue::pop: std::pop_heap, then c.pop_back
Pop(c) ==
    LET n == Len(c) IN
    IF n > 1
    THEN SubSeq(AdjustHeap([c EXCEPT ![n] = c[1]], n - 1, c[n]), 1, n - 1)
    ELSE <<>>

\* ScrubablePendingQueue::top
Top(c) == c[1]

\* (variant: the predicate of remove_if accepts every waiter)
ScrubKeepNone(c, id) == <<>>

\* ScrubablePendingQueue::scrub: what std::remove_if + erase leave in c
ScrubKeep(c, id) == SelectSeq(c, LAMBDA p : instance_id[p] # id)
\* ScrubablePendingQueue::scrub: the returned all_expired
ScrubTake(c, id) == SelectSeq(c, LAMBDA p : instance_id[p] = id)

\* (variant: the notification is not sent)
NotifyLost == woken

\* wake_worker_.notify_one(): reaches the worker only if it is blocked
NotifyOne == IF wpc \in {"wait", "wait_until"} THEN TRUE ELSE woken


\* ------------------------------------------------------------------- Init
Init ==
    /\ now = 0
    /\ ipc = [i \in Inv |-> "idle"]
    /\ instance_id = [i \in Inv |-> 0]
    /\ when_expire = [i \in Inv |-> 0]
    /\ snd = [i \in Inv |-> "none"]
    /\ callback_once = [i \in Inv |-> FALSE]
    /\ delivered = [i \in Inv |-> <<>>]
    /\ promise = [i \in Inv |-> NoValue]
    /\ handle = [i \in Inv |-> "none"]
    /\ notified = [i \in Inv |-> <<>>]
    /\ pending = <<>>
    /\ mtx = "none"
    /\ stop = FALSE
    /\ woken = FALSE
    /\ wpc = "loop"
    /\ wnow = 0
    /\ maybe_expire = NoInv
    /\ wake_when = 0
    /\ spc = [a \in Instances |-> "alive"]
    /\ all_expired = [a \in Instances |-> <<>>]
    /\ tpc = "run"
    /\ drained = 0
    /\ lastRx = NoMsg
    /\ nest = NoNest

\* the listener of invocation i is registered with the transport
Registered(i) == handle[i] \in {"invoke", "waiter", "worker"}

\* ------------------------------------------------------------ steady_clock
Tick ==
    /\ now < MaxTime
    /\ now' = now + 1
    /\ UNCHANGED <<invVars, callback_once, delivered, promise, handle,
                   notified, pending, mtx, stop, woken, workerVars, scrubVars,
                   tearVars, lastRx, nest>>

\* ----------------------------------------------- RpcClient::invokeMethod
\* (variant: the result of registerListener is not checked)
AfterRegisterUnchecked(registered) == "send"

\* what invokeMethod does after registerListener returned (lines 152-154)
AfterRegister(registered) == IF registered THEN "send" ELSE "done"

\* lines 112-154: compute when_expire, build the lambdas, registerListener;
\* on failure expire(maybe_handle.error()) and return
InvokeCore(i, a, registered) ==
    /\ ipc[i] = "idle"
    /\ \A j \in Inv : j < i => ipc[j] # "idle"
    /\ spc[a] = "alive"
    /\ tpc = "run"
    /\ now + ttl_[a] <= MaxTime
    /\ instance_id' = [instance_id EXCEPT ![i] = a]
    /\ when_expire' = [when_expire EXCEPT ![i] = now + ttl_[a]]
    /\ ipc' = [ipc EXCEPT ![i] = AfterRegister(registered)]
    /\ IF registered
       THEN /\ handle' = [handle EXCEPT ![i] = "invoke"]
            /\ UNCHANGED <<delivered, promise, callback_once>>
       ELSE /\ Expire(i, RegErr)
            /\ UNCHANGED handle
    /\ UNCHANGED <<now, snd, notified, pending, mtx, stop, woken, workerVars,
                   scrubVars, tearVars, lastRx>>

\* invokeMethod called by a thread of the application
Invoke(i, a, registered) == InvokeCore(i, a, registered) /\ UNCHANGED nest

\* (variant: the waiter is armed only after a successful send)
ArmIfSent(c, i, sent) == IF sent THEN Emplace(c, i) ELSE c

\* lines 156-161: the queue after the send; the waiter is enqueued whatever
\* send returned (no return after expire(send_result))
Arm(c, i, sent) == Emplace(c, i)

\* lines 155-162: transport_->send(request); expire(send_result) if not OK;
\* then, in both cases, ExpireService::enqueue (lines 67-77) and
\* ExpireWorker::enqueue (lines 277-281): under the lock the waiter, which
\* now owns the listen handle, is emplaced and the worker is notified
SendEnqueue(i, sent) ==
    /\ ipc[i] = "send"
    /\ mtx = "none"
    /\ snd' = [snd EXCEPT ![i] = IF sent THEN "ok" ELSE "fail"]
    /\ IF sent THEN UNCHANGED <<delivered, promise, callback_once>>
               ELSE Expire(i, SendErr)
    /\ pending' = Arm(pending, i, sent)
    /\ handle' = [handle EXCEPT ![i] = "waiter"]
    /\ woken' = NotifyOne
    /\ ipc' = [ipc EXCEPT ![i] = "done"]
    /\ UNCHANGED <<now, instance_id, when_expire, notified, mtx, stop,
                   workerVars, scrubVars, tearVars, lastRx, nest>>

\* ------------------------------------------------------------- transport
\* a message carrying the id of request r exists only once send has handed
\* request r to the transport
InFlight(r) == snd[r] = "ok"

\* the transport hands message m to the registered listener of invocation i
\* (the registration filters on source and sink, so responses to other
\* requests reach the listener too)
DeliverCore(i, m) ==
    /\ Registered(i)
    /\ m.reqid = i => InFlight(i)
    /\ Wrapper(i, m)
    /\ UNCHANGED <<now, invVars, handle, notified, pending, mtx, stop, woken,
                   workerVars, scrubVars, tearVars>>

Deliver(i, m) == DeliverCore(i, m) /\ UNCHANGED <<lastRx, nest>>

\* the same step, remembering the message (used by the listener's checks)
DeliverRec(i, m) ==
    /\ DeliverCore(i, m)
    /\ lastRx' = [to |-> i, reqid |-> m.reqid, commstatus |-> m.commstatus]
    /\ UNCHANGED nest


\* the expire of a waiter taken from the queue is called with reason
QueuedExpire(i, reason) ==
    /\ Expire(i, reason)
    /\ notified' = [notified EXCEPT ![i] = Append(@, reason)]

\* ---------------------------------------------------- ExpireWorker::doWork
\* (variant: the deadline is not compared with the clock)
DueAlways(c, t) == c # <<>>

\* lines 312-314: the waiter at the top is due at the time read in line 306
Due(c, t) == c # <<>> /\ when_expire[Top(c)] <= t

\* line 305-307: while (!stop_), read the clock, maybe_expire empty
WorkerLoop ==
    /\ wpc = "loop"
    /\ IF stop
       THEN wpc' = "done" /\ UNCHANGED <<wnow, maybe_expire>>
       ELSE wpc' = "lock1" /\ wnow' = now /\ maybe_expire' = NoInv
    /\ UNCHANGED <<now, invVars, callback_once, delivered, promise, handle,
                   notified, pending, mtx, stop, woken, wake_when, scrubVars,
                   tearVars, lastRx, nest>>

\* (variant: the handle is not moved out and pop destroys it with the waiter)
MoveOutDropped(h, i) == [h EXCEPT ![i] = "released"]

\* lines 316-317: expired_handle = std::move(top().response_listener)
MoveOut(h, i) == [h EXCEPT ![i] = "worker"]

\* lines 311-319: under the lock, detach the top waiter if it is due
WorkerDetach ==
    /\ wpc = "lock1"
    /\ mtx = "none"
    /\ mtx' = "worker"
    /\ IF Due(pending, wnow)
       THEN /\ maybe_expire' = Top(pending)
            /\ handle' = MoveOut(handle, Top(pending))
            /\ pending' = Pop(pending)
       ELSE UNCHANGED <<maybe_expire, handle, pending>>
    /\ wnow' = 0
    /\ wpc' = "unlock1"
    /\ UNCHANGED <<now, invVars, callback_once, delivered, promise, notified,
                   stop, woken, wake_when, scrubVars, tearVars, lastRx, nest>>

\* (variant: the lock_guard lives until the end of the loop body)
EndOfBlockHeld(m) == m

\* line 321: the lock_guard of the block is destroyed: the mutex after it
EndOfBlock(m) == "none"

\* (variant: expired_handle is not destroyed at the end of the block)
ReleaseDetachedNever(h) == h

\* line 321: expired_handle goes out of scope: the handle the worker moved
\* out of the detached waiter is destroyed
ReleaseDetached(h) ==
    [i \in Inv |-> IF h[i] = "worker" THEN "released" ELSE h[i]]

\* line 321: end of the block: the lock_guard is released, then
\* expired_handle is destroyed (the listener is unregistered)
WorkerUnlock1 ==
    /\ wpc = "unlock1"
    /\ mtx' = EndOfBlock(mtx)
    /\ handle' = ReleaseDetached(handle)
    /\ wpc' = IF maybe_expire # NoInv THEN "expire" ELSE "lock2"
    /\ UNCHANGED <<now, invVars, callback_once, delivered, promise, notified,
                   pending, stop, woken, wnow, maybe_expire, wake_when,
                   scrubVars, tearVars, lastRx, nest>>

\* lines 323-333: expire(expire_reason)
WorkerExpire ==
    /\ wpc = "expire"
    /\ QueuedExpire(maybe_expire, DeadlineExceeded)
    /\ maybe_expire' = NoInv
    /\ wpc' = "loop"
    /\ UNCHANGED <<now, invVars, handle, pending, mtx, stop, woken, wnow,
                   wake_when, scrubVars, tearVars, lastRx, nest>>

\* (variant: the predicate does not test stop_)
WaitPredNoStop == pending # <<>>

\* (variant: the predicate does not test the queue)
WaitPredNoQueue == stop

\* the predicate of wake_worker_.wait (line 339)
WaitPred == stop \/ pending # <<>>

\* the predicate of wake_worker_.wait_until (lines 342-350)
WaitUntilPred(ww) ==
    LET when_next_wake == IF pending # <<>>
                          THEN (IF when_expire[Top(pending)] < ww
                                THEN when_expire[Top(pending)] ELSE ww)
                          ELSE ww
    IN stop \/ now >= when_next_wake

\* lines 336-342: take the lock; wait or wait_until evaluate their predicate
\* first and block (releasing the mutex) only if it is false
WorkerSleep ==
    /\ wpc = "lock2"
    /\ mtx = "none"
    /\ IF pending = <<>>
       THEN /\ UNCHANGED wake_when
            /\ IF WaitPred THEN wpc' = "unlock2" /\ mtx' = "worker"
                           ELSE wpc' = "wait" /\ mtx' = "none"
       ELSE IF WaitUntilPred(when_expire[Top(pending)])
            THEN wpc' = "unlock2" /\ mtx' = "worker" /\ UNCHANGED wake_when
            ELSE /\ wpc' = "wait_until" /\ mtx' = "none"
                 /\ wake_when' = when_expire[Top(pending)]
    /\ woken' = FALSE
    /\ UNCHANGED <<now, invVars, callback_once, delivered, promise, handle,
                   notified, pending, stop, wnow, maybe_expire, scrubVars,
                   tearVars, lastRx, nest>>

\* the blocked worker is resumed, re-acquires the mutex and evaluates the
\* predicate again: it returns if the predicate holds (a timed-out
\* wait_until returns pred(), which holds once now >= wake_when) and blocks
\* again otherwise
Resume ==
    /\ wpc \in {"wait", "wait_until"}
    /\ mtx = "none"
    /\ woken' = FALSE
    /\ IF (wpc = "wait" /\ WaitPred) \/
          (wpc = "wait_until" /\ WaitUntilPred(wake_when))
       THEN wpc' = "unlock2" /\ mtx' = "worker" /\ wake_when' = 0
       ELSE UNCHANGED <<wpc, mtx, wake_when>>
    /\ UNCHANGED <<now, invVars, callback_once, delivered, promise, handle,
                   notified, pending, stop, wnow, maybe_expire, scrubVars,
                   tearVars, lastRx, nest>>

\* resumed by notify_one, or by the timeout of wait_until
WorkerWake ==
    /\ woken \/ (wpc = "wait_until" /\ now >= wake_when)
    /\ Resume

\* a spurious wake-up of the condition variable
WorkerSpurious ==
    /\ ~woken
    /\ ~(wpc = "wait_until" /\ now >= wake_when)
    /\ Resume

\* line 352: the unique_lock goes out of scope
WorkerUnlock2 ==
    /\ wpc = "unlock2"
    /\ mtx' = "none"
    /\ wpc' = "loop"
    /\ UNCHANGED <<now, invVars, callback_once, delivered, promise, handle,
                   notified, pending, stop, woken, wnow, maybe_expire,
                   wake_when, scrubVars, tearVars, lastRx, nest>>


\* --------------------------- ~ExpireService (line 65), ExpireWorker::scrub
\* no caller is inside invokeMethod of the client being destroyed
Quiescent(a) ==
    \A i \in Inv : (ipc[i] # "idle" /\ instance_id[i] = a) => ipc[i] = "done"

\* lines 287-290, 233-259: under the lock, remove the waiters of instance a
\* (erase destroys them and their listen handles), collect their expire
\* lambdas, notify the worker
ScrubLock(a) ==
    /\ spc[a] = "alive"
    /\ tpc = "run"
    /\ Quiescent(a)
    /\ mtx = "none"
    /\ all_expired' = [all_expired EXCEPT ![a] = ScrubTake(pending, a)]
    /\ pending' = ScrubKeep(pending, a)
    /\ handle' = [i \in Inv |->
                    IF i \in Range(pending) /\ i \notin Range(ScrubKeep(pending, a))
                    THEN "released" ELSE handle[i]]
    /\ woken' = NotifyOne
    /\ spc' = [spc EXCEPT ![a] = IF ScrubTake(pending, a) = <<>> THEN "gone"
                                 ELSE "notify"]
    /\ UNCHANGED <<now, invVars, callback_once, delivered, promise, notified,
                   mtx, stop, workerVars, tearVars, lastRx, nest>>

\* lines 299-301: one iteration of the loop calling expire(cancel_reason)
ScrubExpire(a) ==
    /\ spc[a] = "notify"
    /\ QueuedExpire(Head(all_expired[a]), Discarded)
    /\ all_expired' = [all_expired EXCEPT ![a] = Tail(@)]
    /\ spc' = [spc EXCEPT ![a] = IF Tail(all_expired[a]) = <<>> THEN "gone"
                                 ELSE "notify"]
    /\ UNCHANGED <<now, invVars, handle, pending, mtx, stop, woken,
                   workerVars, tearVars, lastRx, nest>>

\* ------------------------- ~ExpireWorker, then ~ScrubablePendingQueue
\* the static worker is destroyed at process exit: no caller is inside
\* invokeMethod and no client is being destroyed
AtExit ==
    /\ \A i \in Inv : ipc[i] \in {"idle", "done"}
    /\ \A a \in Instances : spc[a] \in {"alive", "gone"}

\* line 269: stop_ = true
TearStop ==
    /\ tpc = "run"
    /\ AtExit
    /\ stop' = TRUE
    /\ tpc' = "notify"
    /\ UNCHANGED <<now, invVars, callback_once, delivered, promise, handle,
                   notified, pending, mtx, woken, workerVars, scrubVars,
                   drained, lastRx, nest>>

\* lines 270-273: take the lock, notify_one, release
TearNotify ==
    /\ tpc = "notify"
    /\ mtx = "none"
    /\ woken' = NotifyOne
    /\ tpc' = "join"
    /\ UNCHANGED <<now, invVars, callback_once, delivered, promise, handle,
                   notified, pending, mtx, stop, workerVars, scrubVars,
                   drained, lastRx, nest>>

\* line 274: worker_.join() returns once doWork has returned
TearJoin ==
    /\ tpc = "join"
    /\ wpc = "done"
    /\ tpc' = "drain"
    /\ UNCHANGED <<now, invVars, callback_once, delivered, promise, handle,
                   notified, pending, mtx, stop, woken, workerVars, scrubVars,
                   drained, lastRx, nest>>

\* (variant: the loop stops one element early)
DrainAllButLast(c) == IF c = <<>> THEN c ELSE SubSeq(c, 1, Len(c) - 1)

\* the elements of c the loop of lines 228-230 visits
DrainOrder(c) == c

\* lines 228-230: one iteration of the loop, pending.expire(cancel_reason)
TearDrain ==
    /\ tpc = "drain"
    /\ drained < Len(DrainOrder(pending))
    /\ QueuedExpire(DrainOrder(pending)[drained + 1], ShuttingDown)
    /\ drained' = drained + 1
    /\ UNCHANGED <<now, invVars, handle, pending, mtx, stop, woken,
                   workerVars, scrubVars, tpc, lastRx, nest>>

\* line 231: the priority_queue base and its vector are destroyed, and with
\* them the waiters and their listen handles
TearDestroy ==
    /\ tpc = "drain"
    /\ drained = Len(DrainOrder(pending))
    /\ pending' = <<>>
    /\ handle' = [i \in Inv |-> IF i \in Range(pending) THEN "released"
                                ELSE handle[i]]
    /\ tpc' = "done"
    /\ UNCHANGED <<now, invVars, callback_once, delivered, promise, notified,
                   mtx, stop, woken, workerVars, scrubVars, drained, lastRx,
                   nest>>

\* ------------------------------------------------------- specifications
InvokeNext(i) ==
    \/ \E a \in Instances, registered \in BOOLEAN : Invoke(i, a, registered)
    \/ \E sent \in BOOLEAN : SendEnqueue(i, sent)

WorkerNext ==
    \/ WorkerLoop
    \/ WorkerDetach
    \/ WorkerUnlock1
    \/ WorkerExpire
    \/ WorkerSleep
    \/ WorkerWake
    \/ WorkerUnlock2

ScrubNext(a) ==
    \/ ScrubLock(a)
    \/ ScrubExpire(a)

TearNext ==
    \/ TearStop
    \/ TearNotify
    \/ TearJoin
    \/ TearDrain
    \/ TearDestroy

Next ==
    \/ Tick
    \/ \E i \in 1..MaxCalls : InvokeNext(i)
    \/ \E i \in 1..MaxCalls, m \in Messages : Deliver(i, m)
    \/ WorkerNext
    \/ WorkerSpurious
    \/ \E a \in Instances : ScrubNext(a)
    \/ TearNext

Spec == Init /\ [][Next]_vars

\* the threads run and the clock advances: every step of the worker (except
\* a spurious wake-up), of a caller inside invokeMethod, of a destructor
\* that has started, is eventually taken
Fairness ==
    /\ WF_vars(Tick)
    /\ WF_vars(WorkerNext)
    /\ \A i \in Inv : WF_vars(\E sent \in BOOLEAN : SendEnqueue(i, sent))
    /\ \A a \in Instances : WF_vars(ScrubExpire(a))
    /\ WF_vars(TearNotify \/ TearJoin \/ TearDrain \/ TearDestroy)

FairSpec == Spec /\ Fairness

\* The queue under load: every slot is used, registration and send succeed,
\* no response arrives, the worker is not torn down
QueueNext ==
    \/ Tick
    \/ \E i \in Inv, a \in Instances : Invoke(i, a, TRUE)
    \/ \E i \in Inv : SendEnqueue(i, TRUE)
    \/ WorkerNext
    \/ WorkerSpurious
    \/ \E a \in Instances : ScrubNext(a)

QueueSpec == Init /\ [][QueueNext]_vars

\* One call, every message handed to its listener remembered in lastRx
RxNext ==
    \/ Tick
    \/ InvokeNext(1)
    \/ \E m \in Messages : DeliverRec(1, m)
    \/ WorkerNext
    \/ WorkerSpurious
    \/ \E a \in Instances : ScrubNext(a)
    \/ TearNext

RxSpec == Init /\ [][RxNext]_vars

\* ------------------------------ the lock scopes, one step per boundary
\* In the steps below a thread that takes pending_mtx_ keeps it until the
\* step that models the end of its scope, and a notification is a call step
\* and a return step: between them the callback may call invokeMethod or
\* destroy a client on the notifying thread (nest), and returns only when
\* that operation has returned.
gateVars == <<callback_once, delivered, promise>>

\* lines 155-158: transport_->send(request); expire(send_result) if not OK
Send(i, sent) ==
    /\ ipc[i] = "send"
    /\ snd' = [snd EXCEPT ![i] = IF sent THEN "ok" ELSE "fail"]
    /\ IF sent THEN UNCHANGED gateVars ELSE Expire(i, SendErr)
    /\ ipc' = [ipc EXCEPT ![i] = "enqueue"]
    /\ UNCHANGED <<now, instance_id, when_expire, handle, notified, pending,
                   mtx, stop, woken, workerVars, scrubVars, tearVars, lastRx,
                   nest>>

\* lines 278-280: ExpireWorker::enqueue takes the lock, emplaces the waiter
\* (which now owns the listen handle) and notifies the worker
EnqueueLock(i) ==
    /\ ipc[i] = "enqueue"
    /\ mtx = "none"
    /\ mtx' = "caller"
    /\ pending' = Arm(pending, i, snd[i] = "ok")
    /\ handle' = [handle EXCEPT ![i] = "waiter"]
    /\ woken' = NotifyOne
    /\ ipc' = [ipc EXCEPT ![i] = "unlock"]
    /\ UNCHANGED <<now, instance_id, when_expire, snd, gateVars, notified,
                   stop, workerVars, scrubVars, tearVars, lastRx, nest>>

\* line 281: the lock_guard of enqueue is destroyed, invokeMethod returns
EnqueueUnlock(i) ==
    /\ ipc[i] = "unlock"
    /\ mtx' = "none"
    /\ ipc' = [ipc EXCEPT ![i] = "done"]
    /\ UNCHANGED <<now, instance_id, when_expire, snd, gateVars, handle,
                   notified, pending, stop, woken, workerVars, scrubVars,
                   tearVars, lastRx, nest>>

\* the operation run from inside a notification has returned
NestDone ==
    \/ nest.kind = "invoke" /\ ipc[nest.id] = "done"
    \/ nest.kind = "scrub" /\ spc[nest.id] = "gone"

\* the thread by (the worker, or the thread destroying client of) is inside
\* a notification
InCallback(by, of) ==
    \/ by = "worker" /\ of = 0 /\ wpc = "callback"
    \/ by = "scrub" /\ spc[of] = "callback"

\* lines 323-333: the worker calls expire(expire_reason)
WorkerCall ==
    /\ wpc = "expire"
    /\ QueuedExpire(maybe_expire, DeadlineExceeded)
    /\ maybe_expire' = NoInv
    /\ wpc' = "callback"
    /\ UNCHANGED <<now, invVars, handle, pending, mtx, stop, woken, wnow,
                   wake_when, scrubVars, tearVars, lastRx, nest>>

\* line 333: expire(expire_reason) returns, the loop body ends
WorkerReturn ==
    /\ wpc = "callback"
    /\ nest.by = "worker" => NestDone
    /\ nest' = IF nest.by = "worker" THEN NoNest ELSE nest
    /\ wpc' = "loop"
    /\ UNCHANGED <<now, invVars, gateVars, handle, notified, pending, mtx,
                   stop, woken, wnow, maybe_expire, wake_when, scrubVars,
                   tearVars, lastRx>>

\* lines 336-342: the worker takes the lock; wait or wait_until evaluate
\* their predicate, holding the mutex
WorkerCheck ==
    /\ wpc = "lock2"
    /\ mtx = "none"
    /\ mtx' = "worker"
    /\ IF pending = <<>>
       THEN /\ UNCHANGED wake_when
            /\ wpc' = IF WaitPred THEN "unlock2" ELSE "block_wait"
       ELSE IF WaitUntilPred(when_expire[Top(pending)])
            THEN wpc' = "unlock2" /\ UNCHANGED wake_when
            ELSE /\ wpc' = "block_until"
                 /\ wake_when' = when_expire[Top(pending)]
    /\ UNCHANGED <<now, invVars, gateVars, handle, notified, pending, stop,
                   woken, wnow, maybe_expire, scrubVars, tearVars, lastRx,
                   nest>>

\* the predicate was false: the condition variable releases the mutex and
\* blocks the worker, atomically
WorkerBlock ==
    /\ wpc \in {"block_wait", "block_until"}
    /\ mtx' = "none"
    /\ woken' = FALSE
    /\ wpc' = IF wpc = "block_wait" THEN "wait" ELSE "wait_until"
    /\ UNCHANGED <<now, invVars, gateVars, handle, notified, pending, stop,
                   wnow, maybe_expire, wake_when, scrubVars, tearVars, lastRx,
                   nest>>

\* the blocked worker is resumed, takes the mutex again and evaluates the
\* predicate, holding the mutex
Recheck ==
    /\ wpc \in {"wait", "wait_until"}
    /\ mtx = "none"
    /\ mtx' = "worker"
    /\ woken' = FALSE
    /\ IF (wpc = "wait" /\ WaitPred) \/
          (wpc = "wait_until" /\ WaitUntilPred(wake_when))
       THEN wpc' = "unlock2" /\ wake_when' = 0
       ELSE /\ wpc' = IF wpc = "wait" THEN "block_wait" ELSE "block_until"
            /\ UNCHANGED wake_when
    /\ UNCHANGED <<now, invVars, gateVars, handle, notified, pending, stop,
                   wnow, maybe_expire, scrubVars, tearVars, lastRx, nest>>

\* resumed by notify_one, or by the timeout of wait_until
WorkerNotified ==
    /\ woken \/ (wpc = "wait_until" /\ now >= wake_when)
    /\ Recheck

\* a spurious wake-up of the condition variable
WorkerSpuriousRecheck ==
    /\ ~ woken
    /\ ~ (wpc = "wait_until" /\ now >= wake_when)
    /\ Recheck

\* the thread that runs ~ExpireService of instance a, as a holder of the mutex
ScrubThread(a) == IF a = 0 THEN "scrub0" ELSE "scrub1"

\* line 65: ~ExpireService calls worker.scrub(instance_id_)
ScrubBeginCore(a) ==
    /\ spc[a] = "alive"
    /\ tpc = "run"
    /\ Quiescent(a)
    /\ spc' = [spc EXCEPT ![a] = "lock"]
    /\ UNCHANGED <<now, invVars, gateVars, handle, notified, pending, mtx,
                   stop, woken, workerVars, all_expired, tearVars, lastRx>>

\* a client destroyed by a thread of the application
ScrubBegin(a) == ScrubBeginCore(a) /\ UNCHANGED nest

\* lines 286-289: scrub takes the lock, removes the waiters of instance a,
\* collects their expire lambdas, notifies the worker
ScrubAcquire(a) ==
    /\ spc[a] = "lock"
    /\ mtx = "none"
    /\ mtx' = ScrubThread(a)
    /\ all_expired' = [all_expired EXCEPT ![a] = ScrubTake(pending, a)]
    /\ pending' = ScrubKeep(pending, a)
    /\ handle' = [i \in Inv |->
                    IF i \in Range(pending) /\
                       i \notin Range(ScrubKeep(pending, a))
                    THEN "released" ELSE handle[i]]
    /\ woken' = NotifyOne
    /\ spc' = [spc EXCEPT ![a] = "unlock"]
    /\ UNCHANGED <<now, invVars, gateVars, notified, stop, workerVars,
                   tearVars, lastRx, nest>>

\* line 290: the lock_guard of scrub is destroyed
ScrubUnlock(a) ==
    /\ spc[a] = "unlock"
    /\ mtx' = "none"
    /\ spc' = [spc EXCEPT ![a] = IF all_expired[a] = <<>> THEN "gone"
                                 ELSE "notify"]
    /\ UNCHANGED <<now, invVars, gateVars, handle, notified, pending, stop,
                   woken, workerVars, all_expired, tearVars, lastRx, nest>>

\* lines 299-301: scrub calls expire(cancel_reason) of the next lambda
ScrubCall(a) ==
    /\ spc[a] = "notify"
    /\ QueuedExpire(Head(all_expired[a]), Discarded)
    /\ spc' = [spc EXCEPT ![a] = "callback"]
    /\ UNCHANGED <<now, invVars, handle, pending, mtx, stop, woken,
                   workerVars, all_expired, tearVars, lastRx, nest>>

\* lines 299-301: expire(cancel_reason) returns; next iteration or return
ScrubReturn(a) ==
    /\ spc[a] = "callback"
    /\ (nest.by = "scrub" /\ nest.of = a) => NestDone
    /\ nest' = IF nest.by = "scrub" /\ nest.of = a THEN NoNest ELSE nest
    /\ all_expired' = [all_expired EXCEPT ![a] = Tail(@)]
    /\ spc' = [spc EXCEPT ![a] = IF Tail(all_expired[a]) = <<>> THEN "gone"
                                 ELSE "notify"]
    /\ UNCHANGED <<now, invVars, gateVars, handle, notified, pending, mtx,
                   stop, woken, workerVars, tearVars, lastRx>>

\* the callback of a notification calls invokeMethod on the notifying thread
CallbackInvoke(by, of, i, a) ==
    /\ InCallback(by, of)
    /\ nest = NoNest
    /\ InvokeCore(i, a, TRUE)
    /\ nest' = [by |-> by, of |-> of, kind |-> "invoke", id |-> i]

\* the callback of a notification destroys a client on the notifying thread
CallbackScrub(by, of, a) ==
    /\ InCallback(by, of)
    /\ nest = NoNest
    /\ ScrubBeginCore(a)
    /\ nest' = [by |-> by, of |-> of, kind |-> "scrub", id |-> a]

\* lines 270-272: ~ExpireWorker takes the lock and notifies the worker
TearAcquire ==
    /\ tpc = "notify"
    /\ mtx = "none"
    /\ mtx' = "tear"
    /\ woken' = NotifyOne
    /\ tpc' = "unlock"
    /\ UNCHANGED <<now, invVars, gateVars, handle, notified, pending, stop,
                   workerVars, scrubVars, drained, lastRx, nest>>

\* line 273: the lock_guard of ~ExpireWorker is destroyed
TearUnlock ==
    /\ tpc = "unlock"
    /\ mtx' = "none"
    /\ tpc' = "join"
    /\ UNCHANGED <<now, invVars, gateVars, handle, notified, pending, stop,
                   woken, workerVars, scrubVars, drained, lastRx, nest>>

Notifiers == {<<"worker", 0>>} \cup {<<"scrub", a>> : a \in Instances}

LockWorkerNext ==
    \/ WorkerLoop
    \/ WorkerDetach
    \/ WorkerUnlock1
    \/ WorkerCall
    \/ WorkerReturn
    \/ WorkerCheck
    \/ WorkerBlock
    \/ WorkerNotified
    \/ WorkerUnlock2

LockScrubNext(a) ==
    \/ ScrubBegin(a)
    \/ \E t \in Notifiers : CallbackScrub(t[1], t[2], a)
    \/ ScrubAcquire(a)
    \/ ScrubUnlock(a)
    \/ ScrubCall(a)
    \/ ScrubReturn(a)

LockTearNext ==
    \/ TearStop
    \/ TearAcquire
    \/ TearUnlock
    \/ TearJoin
    \/ TearDrain
    \/ TearDestroy

LockNext ==
    \/ Tick
    \/ \E i \in 1..MaxCalls, a \in Instances : Invoke(i, a, TRUE)
    \/ \E i \in 1..MaxCalls, a \in Instances, t \in Notifiers :
           CallbackInvoke(t[1], t[2], i, a)
    \/ \E i \in 1..MaxCalls : Send(i, TRUE)
    \/ \E i \in 1..MaxCalls : EnqueueLock(i)
    \/ \E i \in 1..MaxCalls : EnqueueUnlock(i)
    \/ LockWorkerNext
    \/ WorkerSpuriousRecheck
    \/ \E a \in Instances : LockScrubNext(a)
    \/ LockTearNext

LockSpec == Init /\ [][LockNext]_vars

\* the threads run and the clock advances; a thread that asks for the mutex
\* gets it if the mutex is free again and again (the spurious wake-ups of
\* the worker, which take the mutex, can go on for ever)
LockFairness ==
    /\ WF_vars(Tick)
    /\ WF_vars(LockWorkerNext)
    /\ \A i \in 1..MaxCalls :
         /\ WF_vars(Send(i, TRUE))
         /\ SF_vars(EnqueueLock(i))
         /\ WF_vars(EnqueueUnlock(i))
    /\ \A a \in Instances :
         /\ SF_vars(ScrubAcquire(a))
         /\ WF_vars(ScrubUnlock(a) \/ ScrubCall(a) \/ ScrubReturn(a))
    /\ SF_vars(TearAcquire)
    /\ WF_vars(TearUnlock \/ TearJoin \/ TearDrain \/ TearDestroy)

LockFairSpec == LockSpec /\ LockFairness

\* ------------------------------------------------------------------ claims
\* the outcomes a continuation can be called with
Outcomes ==
    {MsgResult(m) : m \in {x \in Messages : x.commstatus = OK}} \cup
    {ErrResult(s) : s \in {RemoteErr, RegErr, SendErr, DeadlineExceeded,
                           Discarded, ShuttingDown}}

\* the response to request i with commstatus OK
OkMsg(i) == [reqid |-> i, commstatus |-> OK]

\* C1: on every interleaving of the delivery paths (responses, send failure,
\* registration failure, the worker's timeout, a scoped cancellation, the
\* drain at shutdown) the caller's continuation is invoked at most once per
\* invocation
C1_AtMostOnce == \A i \in Inv : Len(delivered[i]) <= 1

\* C1: the worker has notified the waiter of i at the tick of its deadline,
\* and the continuation was called once, with the response
C1_Witness ==
    \E i \in Inv :
        /\ notified[i] = <<DeadlineExceeded>>
        /\ now = when_expire[i]
        /\ delivered[i] = <<MsgResult(OkMsg(i))>>

\* C2: under fair scheduling every started invocation is eventually resolved:
\* its continuation has been called exactly once, with one of the outcomes,
\* and that stays so
C2_EventuallyResolved ==
    \A i \in Inv :
        (ipc[i] # "idle") ~>
            [](Len(delivered[i]) = 1 /\ delivered[i][1] \in Outcomes)

\* C2: two invocations are resolved, one by the worker's timeout and one by
\* the drain at shutdown
C2_Witness ==
    \E i, j \in Inv :
        /\ delivered[i] = <<ErrResult(DeadlineExceeded)>>
        /\ delivered[j] = <<ErrResult(ShuttingDown)>>
        /\ tpc = "done"

\* no ExpireService has been destroyed
NoHandleDestroyed == \A a \in Instances : spc[a] = "alive"

\* C3 as stated: with no response and no handle destroyed, the worker's
\* expiry notifications fire in the order of the deadlines: a waiter is not
\* notified after one with a later deadline
C3_DeadlineOrder ==
    [][\A i, j \in Inv :
         (/\ NoHandleDestroyed'
          /\ notified[i] = <<DeadlineExceeded>>
          /\ notified[j] = <<>>
          /\ notified'[j] = <<DeadlineExceeded>>) =>
             when_expire[i] <= when_expire[j]]_vars

\* C3 amended: while no handle has been destroyed, the waiter the worker
\* detaches has the smallest deadline of the waiters in the queue at that
\* moment, and it is notified before the worker detaches another one; so
\* waiters that are in the queue together are notified in deadline order
C3_EarliestFirst ==
    [][/\ (NoHandleDestroyed /\ maybe_expire = NoInv /\ maybe_expire' # NoInv) =>
            /\ maybe_expire' \in Range(pending)
            /\ maybe_expire' \notin Range(pending')
            /\ \A j \in Range(pending) :
                   when_expire[maybe_expire'] <= when_expire[j]
       /\ (maybe_expire # NoInv /\ maybe_expire' # maybe_expire) =>
            /\ maybe_expire' = NoInv
            /\ notified'[maybe_expire] = <<DeadlineExceeded>>]_vars

\* C3: three waiters with distinct deadlines, not enqueued in deadline order
\* (the earliest belongs to the second call); the worker has detached the
\* earliest and the other two are still queued
C3_Witness ==
    /\ NoHandleDestroyed
    /\ wpc = "expire"
    /\ maybe_expire = 2
    /\ Len(pending) = 2
    /\ when_expire[maybe_expire] < when_expire[pending[1]]
    /\ when_expire[pending[1]] < when_expire[pending[2]]


\* the waiters of instance a in the queue c
Tagged(c, a) == {p \in Range(c) : instance_id[p] = a}

\* C4: ~ExpireService of instance a removes from the queue exactly the
\* waiters tagged a, and then calls each of their expire with "discarded";
\* the waiters of other instances keep their place in the queue, their
\* deadline, handle and notification state, are not notified by it, and
\* still resolve later
C4_ScopedCancel ==
    /\ [][\A a \in Instances :
            /\ (spc[a] = "alive" /\ spc'[a] # "alive") =>
                 /\ Range(pending') = Range(pending) \ Tagged(pending, a)
                 /\ Range(all_expired'[a]) = Tagged(pending, a)
                 /\ Len(all_expired'[a]) = Cardinality(Tagged(pending, a))
                 /\ notified' = notified
                 /\ delivered' = delivered
                 /\ \A j \in Inv \ Tagged(pending, a) :
                        /\ handle'[j] = handle[j]
                        /\ when_expire'[j] = when_expire[j]
                        /\ instance_id'[j] = instance_id[j]
            /\ (spc[a] = "notify" /\ all_expired'[a] # all_expired[a]) =>
                 LET h == Head(all_expired[a]) IN
                 /\ all_expired'[a] = Tail(all_expired[a])
                 /\ instance_id[h] = a
                 /\ notified'[h] = Append(notified[h], Discarded)
                 /\ pending' = pending
                 /\ handle' = handle
                 /\ \A j \in Inv \ {h} :
                        notified'[j] = notified[j] /\ delivered'[j] = delivered[j]
            /\ (spc[a] = "gone")' => (Tagged(pending, a) = {})'
         ]_vars
    /\ \A j \in Inv :
         (j \in Range(pending) /\ spc[instance_id[j]] = "alive"
            /\ ~ NoHandleDestroyed) ~> (Len(delivered[j]) = 1)

\* C4: the waiter of one instance has been cancelled with "discarded" and its
\* continuation received it, while a waiter of the other instance is still in
\* the queue, registered and not notified
C4_Witness ==
    \E i, j \in Inv :
        /\ instance_id[i] # instance_id[j]
        /\ notified[i] = <<Discarded>>
        /\ delivered[i] = <<ErrResult(Discarded)>>
        /\ j \in Range(pending)
        /\ handle[j] = "waiter"
        /\ notified[j] = <<>>
        /\ delivered[j] = <<>>

\* C5 as stated: once the teardown of the worker has begun, every waiter in
\* the queue is notified with "shutting down": it leaves the queue only
\* through the drain of ~ScrubablePendingQueue
C5_AllShuttingDown ==
    [][\A i \in Inv :
         (stop /\ i \in Range(pending) /\ i \notin Range(pending')) =>
             (tpc = "drain" /\ notified[i] = <<ShuttingDown>>)]_vars

\* C5 amended: every waiter in the queue once the worker thread has been
\* joined is notified with "shutting down" by the drain; when the teardown is
\* complete the queue is empty, no listener is left registered and every
\* waiter ever enqueued has been notified exactly once
C5_DrainAll ==
    /\ tpc = "drain" =>
         /\ drained <= Len(pending)
         /\ \A k \in 1..Len(pending) :
              notified[pending[k]] = IF k <= drained THEN <<ShuttingDown>>
                                     ELSE <<>>
    /\ tpc = "done" =>
         /\ pending = <<>>
         /\ \A i \in Inv :
              /\ snd[i] # "none" => Len(notified[i]) = 1
              /\ ~ Registered(i)

\* C5: the teardown is complete and two waiters of different instances were
\* both notified with "shutting down"
C5_Witness ==
    \E i, j \in Inv :
        /\ tpc = "done"
        /\ instance_id[i] # instance_id[j]
        /\ notified[i] = <<ShuttingDown>>
        /\ notified[j] = <<ShuttingDown>>


\* neither the client of invocation i nor the worker is being destroyed
NotCancelled(i) == spc[instance_id[i]] = "alive" /\ tpc = "run"

\* the step hands a matching response with commstatus OK to the listener of
\* invocation i, before the deadline and before any cancellation
OkResponseInTime(i) ==
    /\ lastRx' # lastRx
    /\ lastRx' = [to |-> i, reqid |-> i, commstatus |-> OK]
    /\ now < when_expire[i]
    /\ NotCancelled(i)

\* a matching response has already passed the listener of invocation i
RespondedBefore(i) ==
    /\ delivered[i] # <<>>
    /\ delivered[i][1].kind = "message" \/ delivered[i][1].status = RemoteErr

\* C6 as stated: a matching response with commstatus OK that reaches the
\* listener before the deadline and before any cancellation is what the
\* continuation receives
C6_ResponseWins ==
    [][\A i \in Inv :
         OkResponseInTime(i) => delivered'[i] = <<MsgResult(OkMsg(i))>>]_vars

\* C6 amended: a matching response with commstatus OK that reaches the
\* listener before the deadline and before any cancellation, no matching
\* response having reached it earlier, is what the continuation receives,
\* and once the continuation has received a response nothing else is
\* delivered to it, although the waiter later expires or is cancelled
C6_FirstResponseWins ==
    [][\A i \in Inv :
         /\ (OkResponseInTime(i) /\ ~ RespondedBefore(i)) =>
                delivered'[i] = <<MsgResult(OkMsg(i))>>
         /\ (delivered[i] = <<MsgResult(OkMsg(i))>>) =>
                delivered'[i] = delivered[i]]_vars

\* C6: the continuation received the response, and the waiter expired later
\* without a second call
C6_Witness ==
    /\ lastRx = [to |-> 1, reqid |-> 1, commstatus |-> OK]
    /\ delivered[1] = <<MsgResult(OkMsg(1))>>
    /\ notified[1] = <<DeadlineExceeded>>

\* C7: when registration and send succeed, "deadline exceeded" is never
\* delivered before the deadline computed at invocation, and it is delivered
\* unless a response arrives or the client or the worker is destroyed
C7_Timeout ==
    /\ [][\A i \in Inv :
            (delivered'[i] # delivered[i] /\
             delivered'[i] = <<ErrResult(DeadlineExceeded)>>) =>
                (snd[i] = "ok" /\ now >= when_expire[i])]_vars
    /\ \A i \in Inv :
         (snd[i] = "ok") ~>
            \/ delivered[i] = <<ErrResult(DeadlineExceeded)>>
            \/ RespondedBefore(i)
            \/ ~ NotCancelled(i)

\* C7: nothing was destroyed, no response was delivered, and the continuation
\* received "deadline exceeded" at the tick of the deadline
C7_Witness ==
    \E i \in Inv :
        /\ snd[i] = "ok"
        /\ delivered[i] = <<ErrResult(DeadlineExceeded)>>
        /\ now = when_expire[i]
        /\ NoHandleDestroyed
        /\ tpc = "run"
        /\ ~ Registered(i)

\* C8: when registerListener fails the continuation receives the
\* registration error, once; send is not called and no waiter is enqueued:
\* the step leaves the queue unchanged and the invocation never enters it
C8_RegistrationFailure ==
    [][\A i \in Inv :
         /\ (ipc[i] = "idle" /\ ipc'[i] = "done") =>
              /\ delivered'[i] = <<ErrResult(RegErr)>>
              /\ pending' = pending
              /\ handle' = handle
         /\ (delivered'[i] # <<>> /\ delivered'[i][1] = ErrResult(RegErr)) =>
              /\ delivered'[i] = <<ErrResult(RegErr)>>
              /\ ipc'[i] = "done"
              /\ snd'[i] = "none"
              /\ handle'[i] = "none"
              /\ notified'[i] = <<>>
              /\ i \notin Range(pending')]_vars

\* C8: a registration failed while the queue held the waiter of another call
C8_Witness ==
    \E i \in Inv :
        /\ delivered[i] = <<ErrResult(RegErr)>>
        /\ ipc[i] = "done"
        /\ pending # <<>>

\* C9: when send fails the continuation receives the send status and the
\* waiter is enqueued all the same, holding the listener handle; the waiter
\* stays in the queue, its listener registered, until the worker's timeout, a
\* scoped cancellation or the shutdown removes it, and the continuation is
\* not called a second time
C9_SendFailure ==
    [][\A i \in Inv :
         /\ (snd[i] = "none" /\ snd'[i] = "fail") =>
              /\ delivered'[i] = <<ErrResult(SendErr)>>
              /\ i \in Range(pending')
              /\ handle'[i] = "waiter"
         /\ (snd[i] = "fail") =>
              /\ delivered[i] = <<ErrResult(SendErr)>>
              /\ delivered'[i] = delivered[i]
              /\ (i \in Range(pending)) => (handle[i] = "waiter")
              /\ (i \in Range(pending) /\ i \notin Range(pending')) =>
                   \/ maybe_expire' = i /\ handle'[i] = "worker"
                   \/ i \in Range(all_expired'[instance_id[i]])
                   \/ tpc' = "done"]_vars

\* C9: the send failed, the continuation received the send status, and the
\* waiter was later removed by the worker's timeout without a second call
C9_Witness ==
    \E i \in Inv :
        /\ snd[i] = "fail"
        /\ notified[i] = <<DeadlineExceeded>>
        /\ delivered[i] = <<ErrResult(SendErr)>>

\* what the continuation must receive for a matching message
Expected(m) ==
    IF m.commstatus = OK
    THEN [kind |-> "message", reqid |-> m.reqid, status |-> OK]
    ELSE [kind |-> "status", reqid |-> NoInv, status |-> m.commstatus]

\* C10: the listener passes a message to the once-only gate only if its
\* reqid equals the id of the request: a matching message is delivered as the
\* success result when its commstatus is OK and as an error carrying its
\* commstatus otherwise (unless the gate was consumed), and a non-matching
\* message neither calls the continuation nor consumes the gate
C10_ListenerFilter ==
    [][\A i \in Inv :
         (lastRx' # lastRx /\ lastRx'.to = i) =>
            LET m == [reqid |-> lastRx'.reqid, commstatus |-> lastRx'.commstatus]
            IN IF m.reqid = i
               THEN /\ callback_once'[i]
                    /\ delivered'[i] = IF callback_once[i] THEN delivered[i]
                                       ELSE <<Expected(m)>>
               ELSE /\ callback_once' = callback_once
                    /\ delivered' = delivered]_vars

\* C10: the listener was handed a message of another request: the gate is
\* not consumed and the continuation was not called
C10_Witness ==
    /\ lastRx.to = 1
    /\ lastRx.reqid # 1
    /\ Registered(1)
    /\ snd[1] = "ok"
    /\ ~ callback_once[1]
    /\ delivered[1] = <<>>

\* the holders of the listen handle of invocation i: the registration result
\* in invokeMethod, the waiter in the queue, the worker's expired_handle
HolderInvoke(i) == ipc[i] = "send"
HolderWaiter(i) == \E k \in 1..Len(pending) : pending[k] = i
HolderWorker(i) == wpc = "unlock1" /\ maybe_expire = i
HolderCount(i) ==
    (IF HolderInvoke(i) THEN 1 ELSE 0) + (IF HolderWaiter(i) THEN 1 ELSE 0)
        + (IF HolderWorker(i) THEN 1 ELSE 0)

\* C11: the listen handle of an invocation whose registration succeeded is
\* registered exactly while one holder (invokeMethod, the waiter in the
\* queue, the worker's detached handle) owns it, and never two; it is
\* released once, in the step that takes the waiter out of the queue for the
\* worker's expiry, a scoped cancellation or the shutdown, never becomes
\* registered again, and under fair scheduling it is eventually released
C11_HandleReleasedOnce ==
    /\ [](\A i \in Inv :
            /\ handle[i] = "invoke" <=> HolderInvoke(i)
            /\ handle[i] = "waiter" <=> HolderWaiter(i)
            /\ handle[i] = "worker" <=> HolderWorker(i)
            /\ Registered(i) <=> HolderCount(i) = 1
            /\ HolderCount(i) <= 1
            /\ Cardinality({k \in 1..Len(pending) : pending[k] = i}) <= 1)
    /\ [][\A i \in Inv :
            /\ handle[i] = "released" => handle'[i] = "released"
            /\ (handle[i] # "released" /\ handle'[i] = "released") =>
                  \/ HolderWorker(i) /\ wpc' # "unlock1"
                  \/ HolderWaiter(i) /\ ~ HolderWaiter(i)' /\
                        (spc'[instance_id[i]] # "alive" \/ tpc' = "done")]_vars
    /\ \A i \in Inv : Registered(i) ~> [](handle[i] = "released")

\* C11: the handle of one invocation was released by the worker on its
\* timeout (after the response had arrived, the listener still registered),
\* the handle of another by the scoped cancellation
C11_Witness ==
    \E i, j \in Inv :
        /\ handle[i] = "released"
        /\ delivered[i] = <<MsgResult(OkMsg(i))>>
        /\ notified[i] = <<DeadlineExceeded>>
        /\ handle[j] = "released"
        /\ notified[j] = <<Discarded>>

\* C12: the queued expire of a waiter is invoked at most once, and at the
\* moment of every invocation (by the worker's timeout, by a scoped
\* cancellation, by the destruction of the queue at shutdown) the waiter has
\* already been removed from the queue
C12_RemovedBeforeNotified ==
    [][\A i \in Inv :
         notified'[i] # notified[i] =>
            /\ notified[i] = <<>>
            /\ Len(notified'[i]) = 1
            /\ ~ HolderWaiter(i)]_vars

\* C13: when the worker calls the expiry notification of a waiter with
\* "deadline exceeded", the listen handle detached with the waiter has been
\* destroyed: at that moment and ever after the listener of that invocation
\* is not registered
C13_UnregisteredAtExpiry ==
    /\ wpc = "expire" =>
         (maybe_expire # NoInv /\ ~ Registered(maybe_expire))
    /\ \A i \in Inv :
         (\E k \in 1..Len(notified[i]) : notified[i][k] = DeadlineExceeded) =>
             ~ Registered(i)

\* C13: the worker is about to call the notification of a detached waiter
\* whose send succeeded and that got no response
C13_Witness ==
    /\ wpc = "expire"
    /\ maybe_expire # NoInv
    /\ snd[maybe_expire] = "ok"
    /\ delivered[maybe_expire] = <<>>
    /\ handle[maybe_expire] = "released"

\* C14: after any sequence of enqueue, expiry (pop) and scoped cancellation
\* (scrub), the waiter the worker inspects under the lock as the earliest
\* (ScrubablePendingQueue::top) has a deadline not later than the deadline
\* of any other waiter in the queue
C14_TopIsEarliest ==
    [][(wpc = "lock1" /\ wpc' = "unlock1" /\ pending # <<>>) =>
          \A j \in Range(pending) :
              when_expire[Top(pending)] <= when_expire[j]]_vars

\* the worker is blocked in wait_until: no notification is pending and the
\* timeout it was given has not been reached
BlockedUntilLater == wpc = "wait_until" /\ ~ woken /\ now < wake_when

\* C15: the worker never sleeps toward a later wake-up time while a waiter
\* in the queue has reached its deadline: when a waiter with an earlier
\* deadline is enqueued during the sleep, the worker wakes no later than
\* that deadline
C15_NoOversleep ==
    BlockedUntilLater => \A i \in Range(pending) : now < when_expire[i]

\* C19: once ~ExpireService of an instance has returned, no thread invokes
\* the expiry notification of a waiter tagged with that instance any more,
\* and the waiters of the instance that were outstanding were notified with
\* "discarded"; also when the worker had detached such a waiter and had not
\* yet invoked its notification when the destructor ran
C19_NoNotificationAfterScrub ==
    [][\A i \in Inv :
         notified'[i] # notified[i] =>
            /\ spc[instance_id[i]] # "gone"
            /\ spc[instance_id[i]] = "notify" => notified'[i] = <<Discarded>>]_vars

\* C18: the future-style invokeMethod runs the callback-style protocol with
\* a continuation that sets the promise: the promise is never set twice, it
\* is set as soon as the invocation is resolved, and the future then holds
\* exactly the outcome the callback-style continuation received
C18_FutureSameOutcome ==
    \A i \in Inv :
        /\ ~ promise[i].thrown
        /\ promise[i].set <=> delivered[i] # <<>>
        /\ promise[i].set => promise[i].value = delivered[i][1]
        /\ promise[i].set => promise[i].value \in Outcomes

\* C18: the future of one call holds the response although its waiter
\* expired later, the future of another holds "deadline exceeded"
C18_Witness ==
    \E i, j \in Inv :
        /\ promise[i].set
        /\ promise[i].value = MsgResult(OkMsg(i))
        /\ notified[i] = <<DeadlineExceeded>>
        /\ promise[j].set
        /\ promise[j].value = ErrResult(DeadlineExceeded)

\* the value of mtx says which thread is inside a lock scope
HolderIsInScope ==
    /\ mtx = "worker" <=>
           wpc \in {"unlock1", "unlock2", "block_wait", "block_until"}
    /\ mtx = "caller" <=> \E i \in Inv : ipc[i] = "unlock"
    /\ \A a \in Instances : mtx = ScrubThread(a) <=> spc[a] = "unlock"
    /\ mtx = "tear" <=> tpc = "unlock"

\* C16: the thread that invokes an expiry or cancellation notification does
\* not hold pending_mtx_: the worker on the timeout path, the thread running
\* scrub on the scoped-cancellation path and the thread destroying the
\* worker on the shutdown path have left their lock scope before the call,
\* and keep out of it until the callback has returned
C16_NotifyUnlocked ==
    /\ [] HolderIsInScope
    /\ [][\A i \in Inv :
            notified'[i] # notified[i] =>
               LET reason == notified'[i][Len(notified'[i])] IN
               /\ reason = DeadlineExceeded => mtx # "worker" /\ mtx' # "worker"
               /\ reason = Discarded =>
                    /\ mtx # ScrubThread(instance_id[i])
                    /\ mtx' # ScrubThread(instance_id[i])
               /\ reason = ShuttingDown => mtx # "tear" /\ mtx' # "tear"]_vars
    /\ [](wpc = "callback" => mtx # "worker")
    /\ [](\A a \in Instances : spc[a] = "callback" => mtx # ScrubThread(a))

\* C16: the worker is inside the notification of a timeout while the thread
\* destroying a client is inside the lock scope of scrub
C16_Witness ==
    /\ wpc = "callback"
    /\ \E i \in Inv : notified[i] = <<DeadlineExceeded>>
    /\ \E a \in Instances : mtx = ScrubThread(a) /\ spc[a] = "unlock"

\* C17: once ~ExpireWorker has set the stop flag, whatever the worker is
\* doing (waiting on the empty queue, waiting for a deadline, between the
\* evaluation of the wait predicate and blocking, inside a notification),
\* the worker loop exits and join returns, and the worker stays terminated
C17_StopTerminates ==
    /\ stop ~> (wpc = "done" /\ tpc \in {"drain", "done"})
    /\ [][wpc = "done" => wpc' = "done"]_vars
    /\ [](tpc \in {"drain", "done"} => wpc = "done")

\* C17: the stop flag was set after the worker found its wait predicate
\* false and before it blocked
C17_Witness ==
    /\ stop
    /\ tpc = "notify"
    /\ wpc \in {"block_wait", "block_until"}

\* the worker is in wait or wait_until (blocked, or evaluating the predicate
\* after a wake-up) while a waiter in the queue has reached its deadline
WaitsWhileDue ==
    /\ wpc \in {"wait", "wait_until", "block_wait", "block_until"}
    /\ \E i \in Range(pending) : when_expire[i] <= now

\* a thread is waiting: for pending_mtx_ (in enqueue, in scrub, in one of the
\* worker's lock scopes, in ~ExpireWorker), on the condition variable while
\* work is due, or inside a notification for the operation its callback runs
SomeoneWaits ==
    \/ \E i \in Inv : ipc[i] = "enqueue"
    \/ \E a \in Instances : spc[a] = "lock"
    \/ wpc \in {"lock1", "lock2"}
    \/ tpc = "notify"
    \/ WaitsWhileDue
    \/ nest # NoNest

\* C20: no thread waits for ever on pending_mtx_, or on the condition
\* variable while a waiter is due, or inside a notification for an
\* invokeMethod or a destruction of a client that its callback runs on the
\* notifying thread: whatever the interleaving of callers, destroying
\* threads and the worker, again and again no thread is waiting
C20_NoDeadlock == []<>(~ SomeoneWaits)

\* C20: from inside the worker's notification the callback has called
\* invokeMethod, which is waiting for the lock in enqueue while another
\* thread is inside the lock scope of scrub
C20_Witness ==
    /\ wpc = "callback"
    /\ nest.by = "worker"
    /\ nest.kind = "invoke"
    /\ ipc[nest.id] = "enqueue"
    /\ \E a \in Instances : mtx = ScrubThread(a)

====
